---- MODULE Spec2Model ----
(***************************************************************************)
(* A model of solrq (src/src/solrq/__init__.py): the value layer (Value,   *)
(* Range, Proximity), the operator routines (QOperator) and the query      *)
(* tree (Q) with its compiler.                                             *)
(*                                                                         *)
(* Python strings are sequences of one-character strings.  Objects live in *)
(* two heaps, addressed by their index: `heap` holds the Value, Range and  *)
(* Proximity objects, `nodes` the Q objects.  `ret` is the record of the   *)
(* last call: its name, its arguments and what it returned or raised.      *)
(***************************************************************************)
EXTENDS Integers, Sequences, FiniteSets, TLC

VARIABLES heap, nodes, ret

vars == <<heap, nodes, ret>>

(***************************************************************************)
(* Bounds of the model.                                                    *)
(***************************************************************************)
\* longest string handed to the escaping routine on its own
MaxLen == 4
\* objects on the value heap, ANY and SET included
MaxValues == 4
\* Q objects on the node heap
MaxNodes == 3
\* longest list of compiled query strings handed to an operator routine
MaxOperands == 2
\* the days of a duration are within -MaxDays..MaxDays
MaxDays == 2

(***************************************************************************)
(* Strings.                                                                *)
(***************************************************************************)
BS == "\\"

RECURSIVE NatStr(_)
\* str(n) for n >= 0: the decimal digits
NatStr(n) ==
    LET digit == <<"0", "1", "2", "3", "4", "5", "6", "7", "8", "9">>[(n % 10) + 1]
    IN  IF n < 10 THEN <<digit>> ELSE NatStr(n \div 10) \o <<digit>>

\* str(n) and format(n, "d") of an int
IntStr(n) == IF n < 0 THEN <<"-">> \o NatStr(-n) ELSE NatStr(n)

\* format(n, "+d"): the sign is always written
SignedStr(n) == IF n < 0 THEN <<"-">> \o NatStr(-n) ELSE <<"+">> \o NatStr(n)

RECURSIVE ZeroPad(_, _)
\* "%0<w>d" % n for n >= 0
ZeroPad(s, w) == IF Len(s) >= w THEN s ELSE ZeroPad(<<"0">> \o s, w)

RECURSIVE Join(_, _)
\* sep.join(list)
Join(sep, list) ==
    IF list = <<>> THEN <<>>
    ELSE IF Len(list) = 1 THEN list[1]
    ELSE list[1] \o sep \o Join(sep, Tail(list))

RECURSIVE SeqsUpTo(_, _)
\* all sequences over S of length at most n
SeqsUpTo(S, n) ==
    IF n = 0 THEN {<<>>}
    ELSE LET shorter == SeqsUpTo(S, n - 1)
         IN  shorter \cup {Append(s, c) : s \in shorter, c \in S}

(***************************************************************************)
(* Raw values: what a caller passes as `raw`, `from_`, `to` or a keyword   *)
(* value.  One record shape for all kinds; `kind` says which fields count. *)
(***************************************************************************)
NoRaw == [kind |-> "none", s |-> <<>>, n |-> 0, days |-> 0, secs |-> 0,
          us |-> 0, tz |-> FALSE, ref |-> 0]

RawStr(s) == [NoRaw EXCEPT !.kind = "str", !.s = s]
RawInt(n) == [NoRaw EXCEPT !.kind = "int", !.n = n]
RawTimedelta(d, s, u) ==
    [NoRaw EXCEPT !.kind = "timedelta", !.days = d, !.secs = s, !.us = u]
RawDatetime(u, tz) == [NoRaw EXCEPT !.kind = "datetime", !.us = u, !.tz = tz]
\* a reference to a Value, Range or Proximity object of the heap
RawValue(id) == [NoRaw EXCEPT !.kind = "Value", !.ref = id]

\* str(timedelta): "[D day[s], ]H:MM:SS[.UUUUUU]"
TimedeltaStr(r) ==
    LET mm == (r.secs \div 60) % 60
        hh == r.secs \div 3600
        ss == r.secs % 60
        absdays == IF r.days < 0 THEN -r.days ELSE r.days
        clock == NatStr(hh) \o <<":">> \o ZeroPad(NatStr(mm), 2)
                            \o <<":">> \o ZeroPad(NatStr(ss), 2)
        days == IF r.days = 0 THEN <<>>
                ELSE IntStr(r.days) \o <<" ", "d", "a", "y">>
                     \o (IF absdays # 1 THEN <<"s">> ELSE <<>>) \o <<",", " ">>
        frac == IF r.us = 0 THEN <<>> ELSE <<".">> \o ZeroPad(NatStr(r.us), 6)
    IN  days \o clock \o frac

\* The one instant the model's datetimes denote, 2020-01-02 03:04:05, with
\* the microseconds and the zone (UTC+01:00 or none) left to the input.
DateText == <<"2", "0", "2", "0", "-", "0", "1", "-", "0", "2">>
ClockText == <<"0", "3", ":", "0", "4", ":", "0", "5">>
OffsetText == <<"+", "0", "1", ":", "0", "0">>

\* datetime.isoformat(sep)
IsoFormat(r, sep) ==
    DateText \o sep \o ClockText
    \o (IF r.us = 0 THEN <<>> ELSE <<".">> \o ZeroPad(NatStr(r.us), 6))
    \o (IF r.tz THEN OffsetText ELSE <<>>)

\* datetime.strftime('%Y-%m-%dT%H:%M:%S.%f')
StrfTime(r) ==
    DateText \o <<"T">> \o ClockText \o <<".">> \o ZeroPad(NatStr(r.us), 6)

(***************************************************************************)
(* Value                                                                   *)
(***************************************************************************)
\* the character class of ESCAPE_RE
RESERVED ==
    {" ", "&", "|", "+", BS, "-", "!", "(", ")", "{", "}", "[", "]", "*", "^",
     "\"", "~", "?", ":"}

\* ESCAPE_RE matches at position pos: the negative lookbehind sees no
\* backslash right before pos in the subject string, and the character at
\* pos is in the class
ESCAPE_RE_lookbehind_dropped(string, pos) == string[pos] \in RESERVED

ESCAPE_RE(string, pos) ==
    /\ ~(pos > 1 /\ string[pos - 1] = BS)
    /\ string[pos] \in RESERVED

RECURSIVE SubFrom(_, _)
\* ESCAPE_RE.sub(r'\\\g<char>', string) from position pos on: one scan,
\* every match replaced by a backslash and the matched character
SubFrom(string, pos) ==
    IF pos > Len(string) THEN <<>>
    ELSE (IF ESCAPE_RE(string, pos) THEN <<BS, string[pos]>> ELSE <<string[pos]>>)
         \o SubFrom(string, pos + 1)

Value_escape(string) == SubFrom(string, 1)

\* an object of the value heap
Object(cls, raw, safe, from_, to, distance) ==
    [cls |-> cls, raw |-> raw, safe |-> safe, from_ |-> from_, to |-> to,
     distance |-> distance]

\* the format with "{:d}" fields: no sign before a number that is not negative
TIMEDELTA_FORMAT_unsigned(days, secs, mills) ==
    <<"N", "O", "W">> \o IntStr(days) \o <<"D", "A", "Y", "S">>
    \o IntStr(secs) \o <<"S", "E", "C", "O", "N", "D", "S">>
    \o IntStr(mills)
    \o <<"M", "I", "L", "L", "I", "S", "E", "C", "O", "N", "D", "S">>

\* "NOW{days:+d}DAYS{secs:+d}SECONDS{mills:+d}MILLISECONDS".format(...)
TIMEDELTA_FORMAT(days, secs, mills) ==
    <<"N", "O", "W">> \o SignedStr(days) \o <<"D", "A", "Y", "S">>
    \o SignedStr(secs) \o <<"S", "E", "C", "O", "N", "D", "S">>
    \o SignedStr(mills)
    \o <<"M", "I", "L", "L", "I", "S", "E", "C", "O", "N", "D", "S">>

\* Value.__init__: the raw and safe fields of the new object
Value_init(raw, safe) ==
    IF raw.kind = "datetime" /\ ~safe THEN
        [raw |-> RawStr(<<"\"">>
                        \o (IF raw.tz THEN StrfTime(raw) ELSE IsoFormat(raw, <<"T">>))
                        \o <<"Z", "\"">>),
         safe |-> TRUE]
    ELSE IF raw.kind = "timedelta" /\ ~safe THEN
        [raw |-> RawStr(IF ~(raw.days = 0 /\ raw.secs = 0 /\ raw.us = 0)
                        THEN TIMEDELTA_FORMAT(raw.days, raw.secs, raw.us \div 1000)
                        ELSE <<"N", "O", "W">>),
         safe |-> TRUE]
    ELSE [raw |-> raw, safe |-> safe]

RECURSIVE Str(_, _), PyStr(_, _), Value_str(_, _)

\* str(raw) of a raw value, the objects being those of heap h
PyStr(h, raw) ==
    CASE raw.kind = "str" -> raw.s
      [] raw.kind = "int" -> IntStr(raw.n)
      [] raw.kind = "timedelta" -> TimedeltaStr(raw)
      [] raw.kind = "datetime" -> IsoFormat(raw, <<" ">>)
      [] raw.kind = "Value" -> Str(h, raw.ref)

\* Value.__str__ with the safe flag ignored: every object is escaped
Value_str_always_escapes(h, id) == Value_escape(PyStr(h, h[id].raw))

\* Value.__str__
Value_str(h, id) ==
    IF h[id].safe THEN PyStr(h, h[id].raw) ELSE Value_escape(PyStr(h, h[id].raw))

\* Proximity.__str__ with str(self.raw) between the quotes in place of
\* Value.__str__
Proximity_str_unescaped(h, id) ==
    <<"\"">> \o PyStr(h, h[id].raw) \o <<"\"", "~">> \o IntStr(h[id].distance)

\* Proximity.__str__
Proximity_str(h, id) ==
    <<"\"">> \o Value_str(h, id) \o <<"\"", "~">> \o IntStr(h[id].distance)

\* str(object): Proximity overrides __str__, Range inherits Value's
Str(h, id) ==
    IF h[id].cls = "Proximity" THEN Proximity_str(h, id) ELSE Value_str(h, id)

(***************************************************************************)
(* Range and Proximity                                                     *)
(***************************************************************************)
\* an optional argument: None, or a given value
None == <<>>
Some(v) == <<v>>

Bracket(open, close) == [open |-> open, close |-> close]

\* BOUNDARY_BRACKETS after its update(): the six words and the four bracket
\* strings themselves
BOUNDARY_BRACKETS ==
    [t \in {"exclusive", "inclusive", "ee", "ei", "ii", "ie", "{}", "{]", "[]", "[}"} |->
        CASE t \in {"exclusive", "ee", "{}"} -> Bracket("{", "}")
          [] t \in {"inclusive", "ii", "[]"} -> Bracket("[", "]")
          [] t \in {"ei", "{]"} -> Bracket("{", "]")
          [] t \in {"ie", "[}"} -> Bracket("[", "}")]

\* `x if isinstance(x, Value) else Value(x, safe or False)`: the heap after
\* the coercion and the object's id
Coerce(h, x, safe) ==
    IF x.kind = "Value" THEN [heap |-> h, id |-> x.ref]
    ELSE LET o == Value_init(x, IF safe = None THEN FALSE ELSE safe[1])
         IN  [heap |-> Append(h, Object("Value", o.raw, o.safe, 0, 0, 0)),
              id |-> Len(h) + 1]

\* `if safe is not None: self.from_.safe = safe; self.to.safe = safe`
OverrideSafe(h, f, t, safe) ==
    IF safe = None THEN h
    ELSE [id \in DOMAIN h |-> IF id \in {f, t} THEN [h[id] EXCEPT !.safe = safe[1]]
                                                ELSE h[id]]

\* The body of Range.__init__ after the boundaries lookup: coercion of both
\* sides, the override of their safe flags, Value.__init__ of the range.
RangeBuild(h, from_, to, safe, brackets) ==
    LET cf == Coerce(h, from_, safe)
        ct == Coerce(cf.heap, to, safe)
        h2 == OverrideSafe(ct.heap, cf.id, ct.id, safe)
        text == <<brackets.open>> \o Str(h2, cf.id) \o <<" ", "T", "O", " ">>
                \o Str(h2, ct.id) \o <<brackets.close>>
        o == Value_init(RawStr(text), TRUE)
    IN  [err |-> "none",
         heap |-> Append(h2, Object("Range", o.raw, o.safe, cf.id, ct.id, 0)),
         id |-> Len(h2) + 1]

\* Range.__init__ with the flags of both sides overridden before the
\* boundaries are looked up
Range_init_override_first(h, from_, to, safe, boundaries) ==
    IF boundaries \notin DOMAIN BOUNDARY_BRACKETS
    THEN LET cf == Coerce(h, from_, safe)
             ct == Coerce(cf.heap, to, safe)
         IN  [err |-> "ValueError",
              heap |-> SubSeq(OverrideSafe(ct.heap, cf.id, ct.id, safe), 1, Len(h)),
              id |-> 0]
    ELSE RangeBuild(h, from_, to, safe, BOUNDARY_BRACKETS[boundaries])

\* Range.__init__ without the override of the sides' flags
Range_init_no_override(h, from_, to, safe, boundaries) ==
    IF boundaries \notin DOMAIN BOUNDARY_BRACKETS
    THEN [err |-> "ValueError", heap |-> h, id |-> 0]
    ELSE RangeBuild(h, from_, to, IF from_.kind = "Value" THEN None ELSE safe,
                    BOUNDARY_BRACKETS[boundaries])

\* Range.__init__(from_, to, safe, boundaries) on heap h: the error raised
\* ("none" when it returns), the heap afterwards and the new Range's id
Range_init(h, from_, to, safe, boundaries) ==
    IF boundaries \notin DOMAIN BOUNDARY_BRACKETS
    THEN [err |-> "ValueError", heap |-> h, id |-> 0]
    ELSE RangeBuild(h, from_, to, safe, BOUNDARY_BRACKETS[boundaries])

\* Proximity.__init__(raw, distance, safe): the new object
Proximity_init(raw, distance, safe) ==
    LET o == Value_init(raw, safe)
    IN  Object("Proximity", o.raw, o.safe, 0, 0, distance)

\* ANY = Value("*", safe=True)
ANY == 1
\* SET = Range(ANY, ANY)
SET == 2

ModuleHeap ==
    LET o == Value_init(RawStr(<<"*">>), TRUE)
    IN  Range_init(<<Object("Value", o.raw, o.safe, 0, 0, 0)>>,
                   RawValue(ANY), RawValue(ANY), None, "inclusive").heap

\* the state once the module is imported
Init ==
    /\ heap = ModuleHeap
    /\ nodes = <<>>
    /\ ret = [phase |-> "return", call |-> "import"]

(***************************************************************************)
(* Inputs                                                                  *)
(***************************************************************************)
Alphabet == {"a", " ", BS, "*"}

OptionalBool == {None, Some(TRUE), Some(FALSE)}

\* the raw values a caller passes that are not heap objects
Scalars ==
    {RawStr(<<"*">>), RawStr(<<BS, " ">>), RawInt(-1),
     RawTimedelta(-1, 60, 3000), RawTimedelta(0, 0, 0),
     RawDatetime(0, FALSE), RawDatetime(3, TRUE)}

\* timedelta objects, normalized as Python keeps them: any number of days,
\* seconds of the day, microseconds of the second
Durations ==
    {RawTimedelta(d, s, u) : d \in -MaxDays..MaxDays, s \in {0, 60, 86399},
                             u \in {0, 999, 1000, 999999}}

\* the distances of a proximity search: negative, zero, positive
Distances == {-1, 0, 12}

Boundaries == DOMAIN BOUNDARY_BRACKETS \cup {"<>", "anything"}

\* An argument expression of a call: a scalar x passed as it is (wrap "raw"),
\* or as Value(x, safe=True) or Value(x, safe=False) built for the call
Args == [raw : Scalars, wrap : {"raw", "safe", "unsafe"}]

\* the heap once argument a is evaluated, and the raw value that is passed
Evaluate(h, a) ==
    IF a.wrap = "raw" THEN [heap |-> h, arg |-> a.raw]
    ELSE LET o == Value_init(a.raw, a.wrap = "safe")
         IN  [heap |-> Append(h, Object("Value", o.raw, o.safe, 0, 0, 0)),
              arg |-> RawValue(Len(h) + 1)]

(***************************************************************************)
(* Rendering on its own: one call per behaviour, on objects made for it.   *)
(* The initial state holds the call and its arguments, the step makes it.  *)
(***************************************************************************)
InitRender ==
    /\ heap = ModuleHeap
    /\ nodes = <<>>
    /\ \/ \E s \in SeqsUpTo(Alphabet, MaxLen), safe \in BOOLEAN :
            ret = [phase |-> "call", call |-> "str(Value)", raw |-> RawStr(s),
                   given |-> safe]
       \/ \E raw \in Scalars \cup Durations, safe \in BOOLEAN :
            ret = [phase |-> "call", call |-> "str(Value)", raw |-> raw,
                   given |-> safe]
       \/ \E from_ \in Args, to \in Args, safe \in OptionalBool, b \in Boundaries :
            ret = [phase |-> "call", call |-> "str(Range)", from_ |-> from_,
                   to |-> to, given |-> safe, boundaries |-> b]
       \/ \E a \in Args \cup [raw : {RawStr(s) : s \in SeqsUpTo(Alphabet, MaxLen)},
                              wrap : {"raw"}], safe \in BOOLEAN :
            ret = [phase |-> "call", call |-> "round trip", arg |-> a,
                   given |-> safe]
       \/ \E a \in Args, distance \in Distances, safe \in BOOLEAN :
            ret = [phase |-> "call", call |-> "str(Proximity)", arg |-> a,
                   distance |-> distance, given |-> safe]

\* str(Value(raw, safe))
StrOfNewValue ==
    /\ ret.phase = "call" /\ ret.call = "str(Value)"
    /\ LET o == Value_init(ret.raw, ret.given)
           h == Append(heap, Object("Value", o.raw, o.safe, 0, 0, 0))
       IN  ret' = [phase |-> "return", call |-> ret.call, raw |-> ret.raw,
                   given |-> ret.given, safe |-> o.safe,
                   text |-> PyStr(h, o.raw), out |-> Str(h, Len(h))]
    /\ UNCHANGED <<heap, nodes>>

\* str(Range(from_, to, safe, boundaries)), the arguments evaluated first
StrOfNewRange ==
    /\ ret.phase = "call" /\ ret.call = "str(Range)"
    /\ LET ef == Evaluate(heap, ret.from_)
           et == Evaluate(ef.heap, ret.to)
           r == Range_init(et.heap, ef.arg, et.arg, ret.given, ret.boundaries)
       IN  ret' = [phase |-> "return", call |-> ret.call, from_ |-> ef.arg,
                   to |-> et.arg, given |-> ret.given,
                   boundaries |-> ret.boundaries, before |-> et.heap,
                   err |-> r.err, after |-> r.heap, id |-> r.id,
                   out |-> IF r.err = "none" THEN Str(r.heap, r.id) ELSE <<>>]
    /\ UNCHANGED <<heap, nodes>>

\* v = Value(arg, safe); first = str(v); again = str(v);
\* wrapped = str(Value(first, safe=True)).  plain is str(arg).
StrRoundTrip ==
    /\ ret.phase = "call" /\ ret.call = "round trip"
    /\ LET e == Evaluate(heap, ret.arg)
           o == Value_init(e.arg, ret.given)
           h == Append(e.heap, Object("Value", o.raw, o.safe, 0, 0, 0))
           first == Str(h, Len(h))
           w == Value_init(RawStr(first), TRUE)
           h2 == Append(h, Object("Value", w.raw, w.safe, 0, 0, 0))
       IN  ret' = [phase |-> "return", call |-> ret.call, arg |-> ret.arg,
                   given |-> ret.given, plain |-> PyStr(e.heap, e.arg),
                   first |-> first, again |-> Str(h2, Len(h)),
                   wrapped |-> Str(h2, Len(h2))]
    /\ UNCHANGED <<heap, nodes>>

\* str(Proximity(arg, distance, safe)), the argument evaluated first
StrOfNewProximity ==
    /\ ret.phase = "call" /\ ret.call = "str(Proximity)"
    /\ LET e == Evaluate(heap, ret.arg)
           h == Append(e.heap, Proximity_init(e.arg, ret.distance, ret.given))
       IN  ret' = [phase |-> "return", call |-> ret.call, arg |-> ret.arg,
                   passed |-> e.arg, before |-> e.heap,
                   distance |-> ret.distance, given |-> ret.given,
                   out |-> Str(h, Len(h))]
    /\ UNCHANGED <<heap, nodes>>

NextRender == StrOfNewValue \/ StrOfNewRange \/ StrRoundTrip \/ StrOfNewProximity

SpecRender == InitRender /\ [][NextRender]_vars

(***************************************************************************)
(* The value heap: objects are built from each other, kept and rendered.   *)
(***************************************************************************)
HeapScalars == {RawStr(<<"*">>), RawTimedelta(-1, 60, 3000)}

HeapInputs == HeapScalars \cup {RawValue(id) : id \in DOMAIN heap}

NewValue == \E raw \in HeapInputs, safe \in BOOLEAN :
    LET o == Value_init(raw, safe)
    IN  /\ Len(heap) < MaxValues
        /\ heap' = Append(heap, Object("Value", o.raw, o.safe, 0, 0, 0))
        /\ ret' = [phase |-> "return", call |-> "Value", err |-> "none",
                   id |-> Len(heap) + 1]
        /\ UNCHANGED nodes

NewRange == \E from_ \in HeapInputs, to \in HeapInputs, safe \in OptionalBool,
               boundaries \in {"inclusive", "<>"} :
    LET r == Range_init(heap, from_, to, safe, boundaries)
    IN  /\ Len(r.heap) <= MaxValues
        /\ heap' = r.heap
        /\ ret' = [phase |-> "return", call |-> "Range", err |-> r.err, id |-> r.id]
        /\ UNCHANGED nodes

NewProximity == \E raw \in HeapInputs, safe \in BOOLEAN :
    /\ Len(heap) < MaxValues
    /\ heap' = Append(heap, Proximity_init(raw, 12, safe))
    /\ ret' = [phase |-> "return", call |-> "Proximity", err |-> "none",
               id |-> Len(heap) + 1]
    /\ UNCHANGED nodes

Render == \E id \in DOMAIN heap :
    /\ ret' = [phase |-> "return", call |-> "str", id |-> id, out |-> Str(heap, id)]
    /\ UNCHANGED <<heap, nodes>>

NextValues == NewValue \/ NewRange \/ NewProximity \/ Render

SpecValues == Init /\ [][NextValues]_vars

(***************************************************************************)
(* QOperator: the operator routines over compiled query strings.  A        *)
(* routine returns [err, s]: the exception raised ("none" when it returns) *)
(* and the string returned.                                                *)
(***************************************************************************)
\* a boost factor: an int n, the float n.0, a bool, or a str (no number)
Factor(type, n) == [type |-> type, n |-> n]

NoFactor == Factor("none", 0)

\* isinstance(factor, (int, float)); bool is a subclass of int
IsNumber(factor) == factor.type \in {"int", "float", "bool"}

\* "{factor}".format(factor=factor) of a number
FactorStr(factor) ==
    CASE factor.type = "int" -> IntStr(factor.n)
      [] factor.type = "float" -> IntStr(factor.n) \o <<".", "0">>
      [] factor.type = "bool" -> IF factor.n # 0 THEN <<"T", "r", "u", "e">>
                                 ELSE <<"F", "a", "l", "s", "e">>

Returned(s) == [err |-> "none", s |-> s]
Raised(e) == [err |-> e, s |-> <<>>]

QOperator_and(qs_list) == Returned(Join(<<" ", "A", "N", "D", " ">>, qs_list))

QOperator_or(qs_list) == Returned(Join(<<" ", "O", "R", " ">>, qs_list))

\* not_ without its check of the length
QOperator_not_unchecked(qs_list) ==
    IF qs_list = <<>> THEN Raised("IndexError")
    ELSE Returned(<<"!">> \o qs_list[1])

QOperator_not(qs_list) ==
    IF Len(qs_list) # 1 THEN Raised("ValueError")
    ELSE Returned(<<"!">> \o qs_list[1])

\* boost with the type of the factor checked before the length
QOperator_boost_type_first(qs_list, factor) ==
    IF ~IsNumber(factor) THEN Raised("TypeError")
    ELSE IF Len(qs_list) # 1 THEN Raised("ValueError")
    ELSE Returned(qs_list[1] \o <<"^">> \o FactorStr(factor))

QOperator_boost(qs_list, factor) ==
    IF Len(qs_list) # 1 THEN Raised("ValueError")
    ELSE IF ~IsNumber(factor) THEN Raised("TypeError")
    ELSE Returned(qs_list[1] \o <<"^">> \o FactorStr(factor))

\* the constant-score routine: the arity and type rule of boost, "^="
QOperator_constant_score(qs_list, factor) ==
    IF Len(qs_list) # 1 THEN Raised("ValueError")
    ELSE IF ~IsNumber(factor) THEN Raised("TypeError")
    ELSE Returned(qs_list[1] \o <<"^", "=">> \o FactorStr(factor))

\* the callable stored as a node's operator: a routine, or
\* partial(routine, factor=factor)
Op(name, factor) == [name |-> name, factor |-> factor]

NoOp == Op("none", NoFactor)
AND == Op("and_", NoFactor)
OR == Op("or_", NoFactor)
NOT == Op("not_", NoFactor)
BOOST(factor) == Op("boost", factor)
CONSTANT_SCORE(factor) == Op("constant_score", factor)

\* self._operator(qs_list)
Apply(op, qs_list) ==
    CASE op.name = "and_" -> QOperator_and(qs_list)
      [] op.name = "or_" -> QOperator_or(qs_list)
      [] op.name = "not_" -> QOperator_not(qs_list)
      [] op.name = "boost" -> QOperator_boost(qs_list, op.factor)
      [] op.name = "constant_score" -> QOperator_constant_score(qs_list, op.factor)

(***************************************************************************)
(* Q                                                                       *)
(***************************************************************************)
\* A Q object.  hasField: the instance has the attributes field and query
\* (query is the id of a heap object); children is <<>> while _children is
\* the class attribute None, and the list of child ids once assigned.
Node(hasField, field, query, children, op) ==
    [hasField |-> hasField, field |-> field, query |-> query,
     children |-> children, op |-> op]

\* a keyword argument term=qs
Kw(term, qs) == [term |-> term, qs |-> qs]

\* the single-keyword branch of Q.__init__: the heap and node heap after it
Leaf(ns, h, kw) ==
    LET c == IF kw.qs.kind = "Value" THEN [heap |-> h, id |-> kw.qs.ref]
             ELSE LET o == Value_init(kw.qs, FALSE)
                  IN  [heap |-> Append(h, Object("Value", o.raw, o.safe, 0, 0, 0)),
                       id |-> Len(h) + 1]
    IN  [nodes |-> Append(ns, Node(TRUE, kw.term, c.id, <<>>, NoOp)), heap |-> c.heap]

RECURSIVE Leaves(_, _, _)
\* [Q(**{term: qs}) for term, qs in kwargs.items()]
Leaves(ns, h, kwargs) ==
    IF kwargs = <<>> THEN [nodes |-> ns, heap |-> h]
    ELSE LET l == Leaf(ns, h, Head(kwargs))
         IN  Leaves(l.nodes, l.heap, Tail(kwargs))

\* bool(children): None and the empty list are false
Truthy(children) == children # None /\ children[1] # <<>>

\* Q.__init__ without the test for children and keywords given together
Q_init_unchecked(ns, h, children, op, kwargs) ==
    IF Len(kwargs) = 1 THEN
        LET l == Leaf(ns, h, kwargs[1])
        IN  [err |-> "none", nodes |-> l.nodes, heap |-> l.heap, id |-> Len(l.nodes)]
    ELSE IF kwargs # <<>> THEN
        LET l == Leaves(ns, h, kwargs)
            kids == [i \in 1..Len(kwargs) |-> Len(ns) + i]
        IN  [err |-> "none",
             nodes |-> Append(l.nodes, Node(FALSE, <<>>, 0, kids, op)),
             heap |-> l.heap, id |-> Len(l.nodes) + 1]
    ELSE [err |-> "none",
          nodes |-> Append(ns, Node(FALSE, <<>>, 0,
                                    IF Truthy(children) THEN children[1] ELSE <<>>,
                                    IF Truthy(children) THEN op ELSE NoOp)),
          heap |-> h, id |-> Len(ns) + 1]

\* Q.__init__(children, op, **kwargs) on node heap ns and value heap h: the
\* error raised, both heaps afterwards and the id of the new node
Q_init(ns, h, children, op, kwargs) ==
    IF kwargs # <<>> /\ Truthy(children) THEN
        [err |-> "ValueError", nodes |-> ns, heap |-> h, id |-> 0]
    ELSE IF kwargs # <<>> /\ Len(kwargs) = 1 THEN
        LET l == Leaf(ns, h, kwargs[1])
        IN  [err |-> "none", nodes |-> l.nodes, heap |-> l.heap, id |-> Len(l.nodes)]
    ELSE IF kwargs # <<>> THEN
        LET l == Leaves(ns, h, kwargs)
            kids == [i \in 1..Len(kwargs) |-> Len(ns) + i]
        IN  [err |-> "none",
             nodes |-> Append(l.nodes, Node(FALSE, <<>>, 0, kids, op)),
             heap |-> l.heap, id |-> Len(l.nodes) + 1]
    ELSE IF Truthy(children) THEN
        [err |-> "none",
         nodes |-> Append(ns, Node(FALSE, <<>>, 0, children[1], op)),
         heap |-> h, id |-> Len(ns) + 1]
    ELSE [err |-> "none", nodes |-> Append(ns, Node(FALSE, <<>>, 0, <<>>, NoOp)),
          heap |-> h, id |-> Len(ns) + 1]

\* self & other that appends other to self's own children and returns self
Q_and_in_place(ns, h, self, other) ==
    [err |-> "none",
     nodes |-> [ns EXCEPT ![self].children = Append(@, other), ![self].op = AND],
     heap |-> h, id |-> self]

Q_and(ns, h, self, other) == Q_init(ns, h, Some(<<self, other>>), AND, <<>>)

Q_or(ns, h, self, other) == Q_init(ns, h, Some(<<self, other>>), OR, <<>>)

Q_invert(ns, h, self) == Q_init(ns, h, Some(<<self>>), NOT, <<>>)

Q_xor(ns, h, self, other) == Q_init(ns, h, Some(<<self>>), BOOST(other), <<>>)

Q_constant_score(ns, h, self, factor) ==
    Q_init(ns, h, Some(<<self>>), CONSTANT_SCORE(factor), <<>>)

\* the first error of a list of results, "none" when there is none
FirstError(results) ==
    IF \A i \in DOMAIN results : results[i].err = "none" THEN "none"
    ELSE LET first == CHOOSE i \in DOMAIN results :
                          /\ results[i].err # "none"
                          /\ \A j \in 1..(i - 1) : results[j].err = "none"
         IN  results[first].err

RECURSIVE Q_compile_children_bare(_, _, _, _)
\* compile with the children compiled without their parentheses
Q_compile_children_bare(ns, h, id, extra_parenthesis) ==
    IF ns[id].children = <<>> THEN
        IF ~ns[id].hasField THEN Raised("AttributeError")
        ELSE Returned(ns[id].field \o <<":">> \o Str(h, ns[id].query))
    ELSE
        LET compiled == [i \in DOMAIN ns[id].children |->
                            Q_compile_children_bare(ns, h, ns[id].children[i], FALSE)]
            query_string == Apply(ns[id].op, [i \in DOMAIN compiled |-> compiled[i].s])
        IN  IF FirstError(compiled) # "none" THEN Raised(FirstError(compiled))
            ELSE IF query_string.err # "none" THEN query_string
            ELSE IF extra_parenthesis
                 THEN Returned(<<"(">> \o query_string.s \o <<")">>)
                 ELSE query_string

RECURSIVE Q_compile_wraps_leaves(_, _, _, _)
\* compile with the parentheses added after the if/else, so around a term too
Q_compile_wraps_leaves(ns, h, id, extra_parenthesis) ==
    LET compiled == [i \in DOMAIN ns[id].children |->
                        Q_compile_wraps_leaves(ns, h, ns[id].children[i], TRUE)]
        query_string ==
            IF ns[id].children = <<>> THEN
                IF ~ns[id].hasField THEN Raised("AttributeError")
                ELSE Returned(ns[id].field \o <<":">> \o Str(h, ns[id].query))
            ELSE IF FirstError(compiled) # "none" THEN Raised(FirstError(compiled))
            ELSE Apply(ns[id].op, [i \in DOMAIN compiled |-> compiled[i].s])
    IN  IF query_string.err = "none" /\ extra_parenthesis
        THEN Returned(<<"(">> \o query_string.s \o <<")">>)
        ELSE query_string

RECURSIVE Q_compile(_, _, _, _)
\* Q.compile(extra_parenthesis) of node id
Q_compile(ns, h, id, extra_parenthesis) ==
    IF ns[id].children = <<>> THEN
        IF ~ns[id].hasField THEN Raised("AttributeError")
        ELSE Returned(ns[id].field \o <<":">> \o Str(h, ns[id].query))
    ELSE
        LET compiled == [i \in DOMAIN ns[id].children |->
                            Q_compile(ns, h, ns[id].children[i], TRUE)]
            query_string == Apply(ns[id].op, [i \in DOMAIN compiled |-> compiled[i].s])
        IN  IF FirstError(compiled) # "none" THEN Raised(FirstError(compiled))
            ELSE IF query_string.err # "none" THEN query_string
            ELSE IF extra_parenthesis
                 THEN Returned(<<"(">> \o query_string.s \o <<")">>)
                 ELSE query_string

(***************************************************************************)
(* The query layer: operator routines called directly, and Q objects built *)
(* from keywords, children and each other, and compiled.                   *)
(***************************************************************************)
\* compiled query strings handed to a routine
QueryStrings == {<<"a", ":", "b">>, <<"c", ":", "d">>}

\* factors of boost and constant-score
Factors == {Factor("int", 2), Factor("float", 2), Factor("bool", 1), Factor("str", 0)}

\* factors used when trees are built
TreeFactors == {Factor("int", 2), Factor("str", 0)}

\* keyword arguments of Q
KA == Kw(<<"a">>, RawStr(<<"b", " ">>))
KC == Kw(<<"c">>, RawValue(SET))
Keywords == {<<KA>>, <<KA, KC>>}

InitQ ==
    /\ heap = ModuleHeap
    /\ nodes = <<>>
    /\ \/ ret = [phase |-> "return", call |-> "import"]
       \/ \E name \in {"and_", "or_", "not_"}, qs_list \in SeqsUpTo(QueryStrings, MaxOperands) :
            ret = [phase |-> "call", call |-> name, qs_list |-> qs_list,
                   factor |-> NoFactor]
       \/ \E name \in {"boost", "constant_score"}, factor \in Factors,
             qs_list \in SeqsUpTo(QueryStrings, MaxOperands) :
            ret = [phase |-> "call", call |-> name, qs_list |-> qs_list,
                   factor |-> factor]

\* the record of a routine's return
RoutineReturn(r) ==
    [phase |-> "return", call |-> ret.call, qs_list |-> ret.qs_list,
     factor |-> ret.factor, err |-> r.err, out |-> r.s]

CallAnd ==
    /\ ret.phase = "call" /\ ret.call = "and_"
    /\ ret' = RoutineReturn(QOperator_and(ret.qs_list))
    /\ UNCHANGED <<heap, nodes>>

CallOr ==
    /\ ret.phase = "call" /\ ret.call = "or_"
    /\ ret' = RoutineReturn(QOperator_or(ret.qs_list))
    /\ UNCHANGED <<heap, nodes>>

CallNot ==
    /\ ret.phase = "call" /\ ret.call = "not_"
    /\ ret' = RoutineReturn(QOperator_not(ret.qs_list))
    /\ UNCHANGED <<heap, nodes>>

CallBoost ==
    /\ ret.phase = "call" /\ ret.call = "boost"
    /\ ret' = RoutineReturn(QOperator_boost(ret.qs_list, ret.factor))
    /\ UNCHANGED <<heap, nodes>>

CallConstantScore ==
    /\ ret.phase = "call" /\ ret.call = "constant_score"
    /\ ret' = RoutineReturn(QOperator_constant_score(ret.qs_list, ret.factor))
    /\ UNCHANGED <<heap, nodes>>

\* how the children argument was given: not at all, empty, or a list
Given(children) ==
    IF children = None THEN "none"
    ELSE IF children[1] = <<>> THEN "empty" ELSE "list"

\* the step of a construction Q(children, op, **kwargs) that gave r
Constructed(children, kwargs, r) ==
    /\ ret.phase = "return"
    /\ Len(r.nodes) <= MaxNodes
    /\ nodes' = r.nodes
    /\ heap' = r.heap
    /\ ret' = [phase |-> "return", call |-> "Q", children |-> Given(children),
               keywords |-> Len(kwargs), err |-> r.err, id |-> r.id]

\* lists of one or two existing nodes
NodeLists == {<<x>> : x \in DOMAIN nodes}
             \cup {<<x, y>> : x \in DOMAIN nodes, y \in DOMAIN nodes}

\* Q(**kwargs) and Q(op=QOperator.or_, **kwargs)
NewFromKeywords == \E kwargs \in Keywords, op \in {AND, OR} :
    /\ Len(kwargs) < 2 => op = AND
    /\ Constructed(None, kwargs, Q_init(nodes, heap, None, op, kwargs))

\* Q(children=[...], op=...)
NewFromChildren == \E children \in NodeLists, op \in {AND, NOT} :
    Constructed(Some(children), <<>>, Q_init(nodes, heap, Some(children), op, <<>>))

\* Q(children=[...], **kwargs)
NewFromBoth == \E children \in {<<>>} \cup NodeLists, kwargs \in Keywords :
    /\ Len(children) < 2
    /\ Constructed(Some(children), kwargs,
                   Q_init(nodes, heap, Some(children), AND, kwargs))

\* self & other
And == \E self \in DOMAIN nodes, other \in DOMAIN nodes :
    Constructed(Some(<<self, other>>), <<>>, Q_and(nodes, heap, self, other))

\* self | other
Or == \E self \in DOMAIN nodes, other \in DOMAIN nodes :
    Constructed(Some(<<self, other>>), <<>>, Q_or(nodes, heap, self, other))

\* ~self
Invert == \E self \in DOMAIN nodes :
    Constructed(Some(<<self>>), <<>>, Q_invert(nodes, heap, self))

\* self ^ other
Xor == \E self \in DOMAIN nodes, other \in TreeFactors :
    Constructed(Some(<<self>>), <<>>, Q_xor(nodes, heap, self, other))

\* self.constant_score(factor)
ConstantScore == \E self \in DOMAIN nodes, factor \in {Factor("float", 2)} :
    Constructed(Some(<<self>>), <<>>, Q_constant_score(nodes, heap, self, factor))

Compile == \E id \in DOMAIN nodes, extra_parenthesis \in BOOLEAN :
    LET r == Q_compile(nodes, heap, id, extra_parenthesis)
    IN  /\ ret.phase = "return"
        /\ ret' = [phase |-> "return", call |-> "compile", id |-> id,
                   extra |-> extra_parenthesis, err |-> r.err, out |-> r.s]
        /\ UNCHANGED <<heap, nodes>>

NextQ ==
    \/ CallAnd \/ CallOr \/ CallNot \/ CallBoost \/ CallConstantScore
    \/ NewFromKeywords \/ NewFromChildren \/ NewFromBoth
    \/ And \/ Or \/ Invert \/ Xor \/ ConstantScore
    \/ Compile

SpecQ == InitQ /\ [][NextQ]_vars

(***************************************************************************)
(* Properties of the value layer                                           *)
(***************************************************************************)
\* the reserved characters as the specification lists them
ListedReserved ==
    {" ", "&", "|", "+", "-", "!", "(", ")", "{", "}", "[", "]", "*", "^", "\"",
     "~", "?", ":", BS}

RECURSIVE TrailingBackslashes(_)
TrailingBackslashes(s) ==
    IF s = <<>> \/ s[Len(s)] # BS THEN 0
    ELSE 1 + TrailingBackslashes(SubSeq(s, 1, Len(s) - 1))

RECURSIVE EscapeAll(_)
\* s with one backslash in front of each occurrence of a reserved character
EscapeAll(s) ==
    IF s = <<>> THEN <<>>
    ELSE (IF Head(s) \in ListedReserved THEN <<BS, Head(s)>> ELSE <<Head(s)>>)
         \o EscapeAll(Tail(s))

StrOfValueReturned == ret.phase = "return" /\ ret.call = "str(Value)"

\* C1: for every string s that does not end in an unescaped backslash,
\* str(Value(s)) is s with exactly one backslash in front of each occurrence
\* of a reserved character.
C1_EveryReservedEscapedOnce ==
    (/\ StrOfValueReturned
     /\ ret.raw.kind = "str"
     /\ ~ret.given
     /\ TrailingBackslashes(ret.raw.s) % 2 = 0)
    => ret.out = EscapeAll(ret.raw.s)

\* position i of text t gets a backslash: a reserved character whose
\* preceding character of t is no backslash
Prefixed(t, i) == t[i] \in ListedReserved /\ (i = 1 \/ t[i - 1] # BS)

\* the number of backslashes added up to position i of t
Added(t, i) == Cardinality({j \in 1..i : Prefixed(t, j)})

\* C2: rendering an unsafe Value decides each character of str(raw) from the
\* input alone: a reserved character right after a backslash of the input is
\* copied, every other reserved character (a backslash included) gets one
\* backslash in front, other characters are copied; a lone backslash
\* renders as two.
C2_OnePassOverInput ==
    (StrOfValueReturned /\ ~ret.safe) =>
        /\ Len(ret.out) = Len(ret.text) + Added(ret.text, Len(ret.text))
        /\ \A i \in 1..Len(ret.text) :
            /\ ret.out[i + Added(ret.text, i)] = ret.text[i]
            /\ Prefixed(ret.text, i) => ret.out[i + Added(ret.text, i) - 1] = BS
        /\ ret.text = <<BS>> => ret.out = <<BS, BS>>

\* an unsafe Value was rendered whose text has a reserved character right
\* after a backslash, and a reserved character elsewhere
C2_Witness ==
    /\ StrOfValueReturned /\ ~ret.safe
    /\ \E i \in 2..Len(ret.text) :
        ret.text[i] \in ListedReserved /\ ret.text[i - 1] = BS
    /\ \E i \in 1..Len(ret.text) : Prefixed(ret.text, i) /\ ret.text[i] # BS

\* C4: no operation changes the raw or safe field of a Value that exists:
\* ANY and SET keep their fields, str(ANY) stays '*' and str(SET) stays
\* '[* TO *]'.
C4_ValuesNeverChange ==
    /\ heap[ANY] = ModuleHeap[ANY]
    /\ heap[SET] = ModuleHeap[SET]
    /\ Str(heap, ANY) = <<"*">>
    /\ Str(heap, SET) = <<"[", "*", " ", "T", "O", " ", "*", "]">>

StrOfRangeReturned == ret.phase = "return" /\ ret.call = "str(Range)"

\* the bracket pairs as the specification lists them
ListedBrackets(token) ==
    CASE token \in {"inclusive", "ii", "[]"} -> <<"[", "]">>
      [] token \in {"exclusive", "ee", "{}"} -> <<"{", "}">>
      [] token \in {"ei", "{]"} -> <<"{", "]">>
      [] token \in {"ie", "[}"} -> <<"[", "}">>
      [] OTHER -> <<>>

\* str() of the object a side x of a Range stands for on heap h, its safe
\* flag as it is (safe = None) or set to the given one
SideText(h, x, safe) ==
    LET o == IF x.kind = "Value" THEN h[x.ref]
             ELSE LET v == Value_init(x, IF safe = None THEN FALSE ELSE safe[1])
                  IN  Object("Value", v.raw, v.safe, 0, 0, 0)
        forced == IF safe = None THEN o ELSE [o EXCEPT !.safe = safe[1]]
        h2 == Append(h, forced)
    IN  Str(h2, Len(h2))

\* C6: with a valid boundaries token, str(Range(from_, to, safe, boundaries))
\* is open + R(from_) + ' TO ' + R(to) + close; without safe, R(x) is str(x)
\* of a Value and str(Value(x)) otherwise; with safe given, both sides are
\* rendered with their flag set to it; the Range itself is safe, so the
\* composite is not escaped again.
C6_RangeRendering ==
    (StrOfRangeReturned /\ ret.err = "none") =>
        /\ ret.out = <<ListedBrackets(ret.boundaries)[1]>>
                     \o SideText(ret.before, ret.from_, ret.given)
                     \o <<" ", "T", "O", " ">>
                     \o SideText(ret.before, ret.to, ret.given)
                     \o <<ListedBrackets(ret.boundaries)[2]>>
        /\ ret.after[ret.id].safe
        /\ ret.after[ret.id].raw = RawStr(ret.out)

\* a Range was built with safe=False from a Value that was safe and from a
\* timedelta
C6_Witness ==
    /\ StrOfRangeReturned /\ ret.err = "none"
    /\ ret.given = Some(FALSE)
    /\ ret.from_.kind = "Value" /\ ret.before[ret.from_.ref].safe
    /\ ret.to.kind = "timedelta"

\* C7: Range accepts exactly the ten listed tokens with the listed bracket
\* pairs; any other token raises ValueError and leaves the Values passed as
\* from_ and to as they were, also when safe was given.
C7_BoundariesAndAtomicFailure ==
    StrOfRangeReturned =>
        IF ListedBrackets(ret.boundaries) # <<>>
        THEN /\ ret.err = "none"
             /\ ret.out[1] = ListedBrackets(ret.boundaries)[1]
             /\ ret.out[Len(ret.out)] = ListedBrackets(ret.boundaries)[2]
        ELSE /\ ret.err = "ValueError"
             /\ ret.after = ret.before

\* a Range with an unknown token was refused although safe was given and a
\* Value with the other flag was passed
C7_Witness ==
    /\ StrOfRangeReturned /\ ret.err = "ValueError"
    /\ ret.given # None
    /\ ret.from_.kind = "Value"
    /\ ret.before[ret.from_.ref].safe # ret.given[1]

RoundTripReturned == ret.phase = "return" /\ ret.call = "round trip"

ExplicitSign(n) == <<IF n < 0 THEN "-" ELSE "+">> \o NatStr(IF n < 0 THEN -n ELSE n)

\* C12: a duration of days, seconds (0..86399) and microseconds (0..999999)
\* given to Value without safe=True renders as NOW, the signed days and DAYS,
\* the signed seconds and SECONDS, the signed whole milliseconds of the
\* microseconds and MILLISECONDS; the zero duration renders as NOW alone;
\* the object is marked safe and its text is rendered unescaped.
C12_DurationRendering ==
    StrOfValueReturned /\ ret.raw.kind = "timedelta" /\ ~ret.given =>
        /\ ret.safe
        /\ ret.out = ret.text
        /\ IF ret.raw.days = 0 /\ ret.raw.secs = 0 /\ ret.raw.us = 0
           THEN ret.out = <<"N", "O", "W">>
           ELSE \E mills \in 0..999 :
                  /\ 1000 * mills <= ret.raw.us /\ ret.raw.us < 1000 * (mills + 1)
                  /\ ret.out = <<"N", "O", "W">>
                       \o ExplicitSign(ret.raw.days) \o <<"D", "A", "Y", "S">>
                       \o ExplicitSign(ret.raw.secs)
                       \o <<"S", "E", "C", "O", "N", "D", "S">>
                       \o ExplicitSign(mills)
                       \o <<"M", "I", "L", "L", "I", "S", "E", "C", "O", "N", "D", "S">>

\* a duration of negative days and a fraction of a millisecond was rendered,
\* with both signs in the output
C12_Witness ==
    /\ StrOfValueReturned /\ ret.raw.kind = "timedelta" /\ ~ret.given
    /\ ret.raw.days < 0 /\ ret.raw.secs > 0 /\ ret.raw.us = 999999
    /\ \E i \in DOMAIN ret.out : ret.out[i] = "-"
    /\ \E i \in DOMAIN ret.out : ret.out[i] = "+"

StrOfProximityReturned == ret.phase = "return" /\ ret.call = "str(Proximity)"

\* str(Value(raw, safe)) for a Value built on heap h
StrOfPlainValue(h, raw, safe) ==
    LET o == Value_init(raw, safe)
        h2 == Append(h, Object("Value", o.raw, o.safe, 0, 0, 0))
    IN  Value_str(h2, Len(h2))

\* text between double quotes, followed by ~ and the distance in decimal
Quoted(text, distance) ==
    <<"\"">> \o text \o <<"\"", "~">>
    \o (IF distance < 0 THEN <<"-">> \o NatStr(-distance) ELSE NatStr(distance))

\* C13: str(Proximity(raw, d, safe)) is str(Value(raw, safe)) between double
\* quotes, then ~ and d in decimal, for negative, zero and positive d; when
\* raw is a Value of a string with reserved characters, the string comes out
\* as it was only if both that Value and the Proximity are marked safe.
C13_ProximityRendering ==
    StrOfProximityReturned =>
        /\ ret.out = Quoted(StrOfPlainValue(ret.before, ret.passed, ret.given),
                            ret.distance)
        /\ ret.arg.wrap # "raw" /\ ret.arg.raw.kind = "str" =>
            (ret.out = Quoted(ret.arg.raw.s, ret.distance)
                <=> ret.arg.wrap = "safe" /\ ret.given)

\* a safe Value of a string with a reserved character was given to a
\* Proximity that is not safe, with a negative distance, and came out escaped
C13_Witness ==
    /\ StrOfProximityReturned /\ ret.distance < 0
    /\ ret.arg.wrap = "safe" /\ ret.arg.raw.kind = "str" /\ ~ret.given
    /\ ret.out # Quoted(ret.arg.raw.s, ret.distance)

(***************************************************************************)
(* Properties of the query layer                                           *)
(***************************************************************************)
RoutineReturned(name) == ret.phase = "return" /\ ret.call = name

CompileReturned == ret.phase = "return" /\ ret.call = "compile"

ConstructorReturned == ret.phase = "return" /\ ret.call = "Q"

Internal(id) == nodes[id].children # <<>>

RECURSIVE Joined(_, _)
\* the strings of list, in their order, with sep between neighbours
Joined(sep, list) ==
    IF list = <<>> THEN <<>>
    ELSE IF Len(list) = 1 THEN list[1]
    ELSE Joined(sep, SubSeq(list, 1, Len(list) - 1)) \o sep \o list[Len(list)]

\* what a one-operand routine with mark `mark` and a factor has to give
FactorRule(mark) ==
    IF Len(ret.qs_list) # 1 THEN ret.err = "ValueError"
    ELSE IF ret.factor.type \in {"int", "float", "bool"}
    THEN /\ ret.err = "none"
         /\ ret.out = ret.qs_list[1] \o mark \o FactorStr(ret.factor)
    ELSE ret.err = "TypeError"

Count(s, c) == Cardinality({i \in 1..Len(s) : s[i] = c})

RECURSIVE InternalBelow(_)
\* the internal nodes strictly below node id, each counted once per place
\* it takes in the tree
InternalBelow(id) ==
    LET kids == nodes[id].children
        each == [i \in DOMAIN kids |->
                    (IF Internal(kids[i]) THEN 1 ELSE 0) + InternalBelow(kids[i])]
        Sum[i \in 0..Len(kids)] == IF i = 0 THEN 0 ELSE Sum[i - 1] + each[i]
    IN  Sum[Len(kids)]

RECURSIVE Rendered(_, _)
\* the query string of node id: a term as field:value; an internal node as
\* its operator's text over its children in their order, every internal
\* child in parentheses, and in parentheses itself when `wrapped`
Rendered(id, wrapped) ==
    LET n == nodes[id]
        kids == [i \in DOMAIN n.children |-> Rendered(n.children[i], TRUE)]
        body == CASE n.op.name = "and_" -> Joined(<<" ", "A", "N", "D", " ">>, kids)
                  [] n.op.name = "or_" -> Joined(<<" ", "O", "R", " ">>, kids)
                  [] n.op.name = "not_" -> <<"!">> \o kids[1]
                  [] n.op.name = "boost" -> kids[1] \o <<"^">> \o FactorStr(n.op.factor)
                  [] n.op.name = "constant_score" ->
                        kids[1] \o <<"^", "=">> \o FactorStr(n.op.factor)
    IN  IF ~Internal(id) THEN n.field \o <<":">> \o Str(heap, n.query)
        ELSE IF wrapped THEN <<"(">> \o body \o <<")">>
        ELSE body

\* C3: compile() renders a leaf as field:value without parentheses, wraps
\* every internal node that is a child of another node in exactly one pair
\* of parentheses, does not wrap the root unless extra_parenthesis is True,
\* and keeps the children in their order.
C3_MinimalParentheses ==
    (CompileReturned /\ ret.err = "none") =>
        /\ ret.out = Rendered(ret.id, ret.extra)
        /\ Count(ret.out, "(") = InternalBelow(ret.id)
                                 + (IF Internal(ret.id) /\ ret.extra THEN 1 ELSE 0)
        /\ Count(ret.out, ")") = Count(ret.out, "(")

\* a root with an internal child was compiled without extra parentheses
C3_Witness ==
    /\ CompileReturned /\ ret.err = "none" /\ ~ret.extra
    /\ \E i \in DOMAIN nodes[ret.id].children : Internal(nodes[ret.id].children[i])

\* the error the operator of node n raises for its number of children and
\* its factor, "none" when it accepts them
OperatorError(n) ==
    IF n.op.name \in {"not_", "boost", "constant_score"} /\ Len(n.children) # 1
    THEN "ValueError"
    ELSE IF n.op.name \in {"boost", "constant_score"} /\ ~IsNumber(n.op.factor)
    THEN "TypeError"
    ELSE "none"

\* C5 as stated: every usage error is raised at construction, so compile()
\* of a constructed tree never raises a ValueError or TypeError.
C5_NoUsageErrorAtCompile ==
    CompileReturned => ret.err \notin {"ValueError", "TypeError"}

\* C5 as amended: Q(children, **kwargs) with a non-empty children list and
\* keywords raises ValueError at construction and builds nothing; no other
\* construction raises, whatever the operator, the number of children and
\* the factor; compile() raises the ValueError or TypeError of the first
\* operator routine, children before parents, that rejects its children or
\* its factor.
C5_UsageErrorsWhereRaised ==
    /\ ConstructorReturned =>
        IF ret.children = "list" /\ ret.keywords > 0
        THEN ret.err = "ValueError" /\ ret.id = 0
        ELSE ret.err = "none" /\ ret.id = Len(nodes)
    /\ CompileReturned =>
        LET n == nodes[ret.id]
            kids == [i \in DOMAIN n.children |->
                        Q_compile(nodes, heap, n.children[i], TRUE).err]
            failed == {i \in DOMAIN kids : kids[i] # "none"}
        IN  IF failed # {}
            THEN ret.err = kids[CHOOSE i \in failed : \A j \in failed : i <= j]
            ELSE IF Internal(ret.id) THEN ret.err = OperatorError(n)
            ELSE ret.err = "none"

\* compile() raised ValueError for a not_ node with two children that was
\* constructed without error
C5_Witness ==
    /\ CompileReturned /\ ret.err = "ValueError"
    /\ nodes[ret.id].op.name = "not_"
    /\ Len(nodes[ret.id].children) = 2

C10_ChildrenWithKeywordsRefused ==
    /\ (ConstructorReturned /\ ret.children # "none" /\ ret.keywords > 0) =>
        ret.err = "ValueError"
    /\ \A id \in DOMAIN nodes : ~(nodes[id].hasField /\ Internal(id))

\* the nodes that id holds as children
Children(id) == {nodes[id].children[i] : i \in DOMAIN nodes[id].children}

RECURSIVE Reachable(_, _)
\* the nodes reached from the nodes of S by at most n steps to a child
Reachable(S, n) ==
    IF n = 0 THEN S
    ELSE Reachable(S \cup UNION {Children(p) : p \in S}, n - 1)

\* the nodes below id
Descendants(id) == Reachable(Children(id), Len(nodes))

NoCycles == \A id \in DOMAIN nodes : id \notin Descendants(id)

\* no node is a child twice, under one parent or under two
NoSharedSubtrees ==
    \A p \in DOMAIN nodes, q \in DOMAIN nodes :
        \A i \in DOMAIN nodes[p].children, j \in DOMAIN nodes[q].children :
            nodes[p].children[i] = nodes[q].children[j] => p = q /\ i = j

\* C14 as stated: the Q nodes form a forest, no node reachable from itself
\* and no node a child more than once.  Refuted: q & q holds q twice, and
\* q & a, ~q hold the same q under two parents.
C14_Forest == NoCycles /\ NoSharedSubtrees

\* C14, amended: a construction and each of &, |, ~, ^ returns a node that
\* did not exist before, every node and every value object that existed
\* keeps its children, operator, field and value, and no node is reachable
\* from itself through children; operands are referenced, not copied, so a
\* node may be a child more than once.
C14_NewNodeOverUnchangedOperands ==
    [][/\ \A id \in DOMAIN nodes : id \in DOMAIN nodes' /\ nodes'[id] = nodes[id]
       /\ \A v \in DOMAIN heap : v \in DOMAIN heap' /\ heap'[v] = heap[v]
       /\ ret'.call = "Q" /\ ret'.err = "none" /\ nodes' # nodes
            => ret'.id \in DOMAIN nodes' \ DOMAIN nodes
       /\ ret'.call = "Q" /\ ret'.err = "none" /\ ret'.children = "list"
            => nodes' # nodes
       /\ nodes' # nodes => NoCycles']_vars

\* an operator returned a node that holds one operand twice, while that
\* operand is also the child of another node
C14_Witness ==
    /\ ConstructorReturned /\ ret.err = "none" /\ ret.children = "list"
    /\ \E x \in DOMAIN nodes, p \in DOMAIN nodes \ {ret.id} :
          /\ nodes[ret.id].children = <<x, x>>
          /\ x \in Children(p)

====
